---- MODULE Spec2Model ----
(***************************************************************************)
(* RemoteAuth (src/authStrategies/RemoteAuth.js): remote-backed            *)
(* persistence of a browser profile directory.                             *)
(*                                                                         *)
(* The model follows the async methods of the class step by step: every    *)
(* `await` of a store or filesystem call is a suspension point, so each    *)
(* method is a small process whose program counter names the call it is    *)
(* suspended at.  An action is "that call returns (or throws) and the      *)
(* method runs on to its next await".  The remote store, the local profile *)
(* directory and the archive files in the working directory are the shared *)
(* state all methods act on.                                               *)
(***************************************************************************)
EXTENDS Naturals, FiniteSets, Sequences

\* ---------------------------------------------------------------- bounds
MaxAuthReady == 1      \* authReady() calls the host may make
MaxCycles == 2         \* storeRemoteSession() invocations that may be started
MaxRestarts == 1       \* times the host process may be stopped and started again
MaxIdLen == 2          \* longest clientId handed to the constructor

AuthCalls == 1..MaxAuthReady
Cycles == 1..MaxCycles

\* ------------------------------------------------------------ file system
\* A profile directory is its top-level entries plus the entries directly
\* inside Default (the two levels deleteMetadata looks at).
requiredDirs == {"Default", "IndexedDB", "Local Storage"}

NoTree == [exists |-> FALSE, top |-> {}, def |-> {}]
Tree(t, d) == [exists |-> TRUE, top |-> t, def |-> IF "Default" \in t THEN d ELSE {}]

\* The profile the browser writes: required entries mixed with metadata, on
\* both levels.
BrowserProfiles ==
    { Tree({"Default", "IndexedDB", "lockfile"}, {"Local Storage", "Cache"}) }

\* What a directory looks like once pruned to the required set.
Pruned(t) == [exists |-> t.exists, top |-> t.top \cap requiredDirs,
              def |-> t.def \cap requiredDirs]

\* Snapshots a store may already hold from an earlier process.
StoredSnapshots == { Pruned(p) : p \in BrowserProfiles }

\* The archive files the class names.
StoreZip == "session.zip"                 \* `${this.sessionName}.zip`
ExtractZip == "RemoteAuth-session.zip"    \* `RemoteAuth-${this.sessionName}.zip`
UnCompressFile == "RemoteAuth-session.\n                "
ZipFiles == {StoreZip, ExtractZip, UnCompressFile}

VARIABLES
    store,            \* remote store: the snapshot held under sessionName
    userDataDir,      \* the local profile directory (this.userDataDir on disk)
    zips,             \* archive files in the working directory, by name
    puppeteerDir,     \* client.options.puppeteer.userDataDir
    bpc,              \* beforeBrowserInitialized: where it is
    rpc,              \* extractRemoteSession: the call it is suspended at
    rSessionExists,   \* extractRemoteSession: const sessionExists
    rFailed,          \* extractRemoteSession: its catch block has run
    apc,              \* authReady calls: where each is
    aCycle,           \* authReady calls: the storeRemoteSession each awaits
    timers,           \* active setInterval handles
    backupSync,       \* this.backupSync (0: undefined)
    cpc,              \* storeRemoteSession invocations: the call each is suspended at
    cSessionExists,   \* storeRemoteSession invocations: const sessionExists
    lpc,              \* logout: where it is
    lFailed,          \* logout: some store/fs call of it threw
    restarts,         \* how often the host process has been started again
    clientId,         \* constructor argument clientId: given or not, and its characters
    backupSyncMs,     \* constructor argument backupSyncMs: given or not, and its value
    ctor,             \* constructor: "new" (not yet run), "ok" or "threw"
    dir0,             \* the profile directory as it was when the running recovery
                      \* (or deleteMetadata on its own) was called
    ppc,              \* deleteMetadata on its own: where it is
    todo              \* deleteMetadata on its own: elements the running for-loop has left

vars == <<store, userDataDir, zips, puppeteerDir, bpc, rpc, rSessionExists, rFailed,
          apc, aCycle, timers, backupSync, cpc, cSessionExists, lpc, lFailed, restarts,
          clientId, backupSyncMs, ctor, dir0, ppc, todo>>

fsVars == <<userDataDir, zips>>
recVars == <<puppeteerDir, bpc, rpc, rSessionExists, rFailed>>
authVars == <<apc, aCycle, timers, backupSync>>
cycleVars == <<cpc, cSessionExists>>
logoutVars == <<lpc, lFailed>>
procVars == <<recVars, authVars, cycleVars, logoutVars>>
ctorVars == <<clientId, backupSyncMs, ctor>>
pruneVars == <<dir0, ppc, todo>>

\* ------------------------------------------------------------------ Init
\* The object after construction: nothing is running, no timer exists.
Constructed ==
    /\ puppeteerDir \in {"unset", "dirPath", "other"}
    /\ bpc = "idle"
    /\ rpc = "idle"
    /\ rSessionExists = FALSE
    /\ rFailed = FALSE
    /\ apc = [a \in AuthCalls |-> "idle"]
    /\ aCycle = [a \in AuthCalls |-> 0]
    /\ timers = {}
    /\ backupSync = 0
    /\ cpc = [c \in Cycles |-> "idle"]
    /\ cSessionExists = [c \in Cycles |-> FALSE]
    /\ lpc = "idle"
    /\ lFailed = FALSE

\* ------------------------------------------------------------- constructor
\* Characters a clientId is made of here: letters of both cases, a digit,
\* the two punctuation marks of the pattern, and characters outside it.
Letters == {"a", "Z"}
Digits == {"7"}
IdChars == Letters \cup Digits \cup {"_", "-", ".", "\n"}

\* \w of a JavaScript regular expression: [A-Za-z0-9_].
WordChars == Letters \cup Digits \cup {"_"}

\* Line 19-20: idRegex.test(clientId) with idRegex = /^[-_\w]+$/i; without the
\* m flag ^ and $ match only at the two ends of the string.
idRegexTest(s) == Len(s) >= 1 /\ \A i \in 1..Len(s) : s[i] \in {"-", "_"} \cup WordChars

\* Line 23: the floor of backupSyncMs.
MinBackupSyncMs == 60000

\* The arguments a host may construct RemoteAuth with (a store is supplied).
NoClientId == [given |-> FALSE, chars |-> <<>>]
ClientIds ==
    {NoClientId} \cup
    { [given |-> TRUE, chars |-> s] : s \in UNION { [1..n -> IdChars] : n \in 0..MaxIdLen } }
BackupSyncArgs ==
    { [given |-> FALSE, ms |-> 0] } \cup
    { [given |-> TRUE, ms |-> n] : n \in {0, 1, 59999, 60000, 60001, 3600000} }

\* JavaScript truthiness of the two arguments: undefined, "" and 0 are falsy.
Truthy(id) == id.given /\ id.chars # <<>>
TruthyMs(arg) == arg.given /\ arg.ms # 0

\* Lines 17-32: the constructor throws at line 21 or line 24, or returns.
constructor ==
    /\ ctor = "new"
    /\ ctor' = IF Truthy(clientId) /\ ~idRegexTest(clientId.chars) THEN "threw"
               ELSE IF ~TruthyMs(backupSyncMs) \/ backupSyncMs.ms < MinBackupSyncMs THEN "threw"
               ELSE "ok"
    /\ UNCHANGED <<clientId, backupSyncMs, pruneVars, restarts, store, fsVars, procVars>>

\* deleteMetadata is not running on its own.
NoPrune ==
    /\ dir0 = NoTree
    /\ ppc = "idle"
    /\ todo = {}

\* The object the session methods run on: constructed without clientId
\* (sessionName is "session", line 35) and with the smallest interval.
ConstructedOk ==
    /\ clientId = NoClientId
    /\ backupSyncMs = [given |-> TRUE, ms |-> MinBackupSyncMs]
    /\ ctor = "ok"

\* The store and the disk are whatever an earlier process left behind.
Init ==
    /\ store \in {NoTree} \cup StoredSnapshots
    /\ userDataDir \in {NoTree} \cup BrowserProfiles
    /\ zips = [f \in ZipFiles |-> NoTree]
    /\ restarts = 0
    /\ Constructed
    /\ ConstructedOk
    /\ NoPrune

\* The constructor on its own: any arguments, nothing else running.
InitConstructor ==
    /\ clientId \in ClientIds
    /\ backupSyncMs \in BackupSyncArgs
    /\ ctor = "new"
    /\ store = NoTree
    /\ userDataDir = NoTree
    /\ zips = [f \in ZipFiles |-> NoTree]
    /\ restarts = 0
    /\ Constructed
    /\ puppeteerDir = "unset"
    /\ NoPrune

\* ------------------------------------------------- beforeBrowserInitialized
\* Lines 34-42: the userDataDir conflict check, then extractRemoteSession is
\* called and suspends at store.sessionExists.
beforeBrowserInitialized ==
    /\ bpc = "idle"
    /\ IF puppeteerDir = "other"
         THEN /\ bpc' = "threw"
              /\ rpc' = rpc
         ELSE /\ bpc' = "extractRemoteSession"
              /\ rpc' = "sessionExists"
    /\ dir0' = userDataDir
    /\ UNCHANGED <<ctorVars, ppc, todo, restarts, store, fsVars, puppeteerDir, rSessionExists, rFailed,
                   authVars, cycleVars, logoutVars>>

\* (mutant) extractRemoteSession without its try/catch: the error rejects it.
extractCatchRethrows ==
    /\ rpc' = "threw"
    /\ rFailed' = TRUE
    /\ rSessionExists' = FALSE

\* The catch block of extractRemoteSession (lines 102-104): log, return.
extractCatch ==
    /\ rpc' = "done"
    /\ rFailed' = TRUE
    /\ rSessionExists' = FALSE

\* Line 89 returns; line 90 (isValidPath) is called.
extractSessionExists ==
    /\ rpc = "sessionExists"
    /\ \E ok \in BOOLEAN :
         IF ok THEN /\ rSessionExists' = store.exists
                    /\ rpc' = "isValidPath"
                    /\ rFailed' = rFailed
               ELSE extractCatch
    /\ UNCHANGED <<ctorVars, pruneVars, restarts, store, fsVars, puppeteerDir, bpc, authVars,
                   cycleVars, logoutVars>>

\* After the local directory has been dealt with (lines 97-101): extract is
\* called when the snapshot existed, otherwise the method returns.
extractAfterLocal ==
    IF rSessionExists THEN /\ rpc' = "extract"
                           /\ rSessionExists' = rSessionExists
                      ELSE /\ rpc' = "done"
                           /\ rSessionExists' = FALSE

\* (mutant) the removal of lines 91-96 made only when a snapshot exists.
extractIsValidPathWithSnapshot ==
    /\ rpc = "isValidPath"
    /\ IF userDataDir.exists /\ rSessionExists
         THEN /\ rpc' = "rm"
              /\ rSessionExists' = rSessionExists
         ELSE extractAfterLocal
    /\ UNCHANGED <<ctorVars, pruneVars, restarts, store, fsVars, puppeteerDir, bpc, rFailed,
                   authVars, cycleVars, logoutVars>>

\* Line 90 returns (isValidPath never throws, lines 186-193); lines 91-96.
extractIsValidPath ==
    /\ rpc = "isValidPath"
    /\ IF userDataDir.exists THEN /\ rpc' = "rm"
                                  /\ rSessionExists' = rSessionExists
                             ELSE extractAfterLocal
    /\ UNCHANGED <<ctorVars, pruneVars, restarts, store, fsVars, puppeteerDir, bpc, rFailed,
                   authVars, cycleVars, logoutVars>>

\* Lines 92-95 return: the directory is gone, or rm threw.
extractRm ==
    /\ rpc = "rm"
    /\ \E ok \in BOOLEAN :
         IF ok THEN /\ userDataDir' = NoTree
                    /\ extractAfterLocal
                    /\ rFailed' = rFailed
               ELSE /\ extractCatch
                    /\ userDataDir' = userDataDir
    /\ UNCHANGED <<ctorVars, pruneVars, restarts, store, zips, puppeteerDir, bpc, authVars, cycleVars, logoutVars>>

\* Line 98 returns: the store has written the archive to its known place, or
\* threw.  unCompressSession (line 99) is called.
extractStoreExtract ==
    /\ rpc = "extract"
    /\ \E ok \in BOOLEAN :
         IF ok /\ store.exists
           THEN /\ zips' = [zips EXCEPT ![ExtractZip] = store]
                /\ rpc' = "unCompress"
                /\ UNCHANGED <<rFailed, rSessionExists>>
           ELSE /\ extractCatch
                /\ zips' = zips
    /\ UNCHANGED <<ctorVars, pruneVars, restarts, store, userDataDir, puppeteerDir, bpc, authVars, cycleVars, logoutVars>>

\* tar.extract({cwd: this.userDataDir, file: ...}) of lines 137-141 succeeds
\* only when the archive file it is given and the directory it is to write
\* into both exist.
unCompressOk == zips[UnCompressFile].exists /\ userDataDir.exists

\* Line 99 returns.  The promise of tar.extract is returned un-awaited from
\* inside unCompressSession's try, so its rejection is caught by
\* extractRemoteSession's catch.  On success the archive is unlinked
\* (line 100) and the method returns.
extractUnCompress ==
    /\ rpc = "unCompress"
    /\ IF unCompressOk
         THEN /\ userDataDir' = zips[UnCompressFile]
              /\ zips' = [zips EXCEPT ![ExtractZip] = NoTree]
              /\ rpc' = "done"
              /\ rFailed' = rFailed
              /\ rSessionExists' = FALSE
         ELSE /\ extractCatch
              /\ UNCHANGED fsVars
    /\ UNCHANGED <<ctorVars, pruneVars, restarts, store, puppeteerDir, bpc, authVars, cycleVars, logoutVars>>

\* (mutant) unCompressSession called without await: extractRemoteSession
\* returns while tar.extract still runs.
extractSettledEarly == rpc \in {"unCompress", "done", "threw"}

\* extractRemoteSession's promise has settled: `await` of line 42 resumes.
\* Every await of the method is inside its try, and unCompressSession's
\* promise is awaited at line 99, so it settles when the last call has
\* returned or the catch block has run.
extractSettled == rpc \in {"done", "threw"}

\* Line 42 resumes: a rejection would be rethrown by the await; otherwise
\* lines 43-46 give the host options the resolved directory path.
beforeBrowserInitializedResume ==
    /\ bpc = "extractRemoteSession"
    /\ extractSettled
    /\ IF rpc = "threw"
         THEN /\ bpc' = "threw"
              /\ puppeteerDir' = puppeteerDir
         ELSE /\ bpc' = "done"
              /\ puppeteerDir' = "dirPath"
    /\ dir0' = NoTree
    /\ UNCHANGED <<ctorVars, ppc, todo, restarts, store, fsVars, rpc, rSessionExists, rFailed,
                   authVars, cycleVars, logoutVars>>

\* ------------------------------------------------------------------ timer
\* Lines 66-68: setInterval returns a fresh handle (the handle of call a is a)
\* and this.backupSync is overwritten with it; authReady returns.
setInterval(a) ==
    /\ timers' = timers \cup {a}
    /\ backupSync' = a
    /\ apc' = [apc EXCEPT ![a] = "done"]

\* Line 57: clearInterval(this.backupSync); logout returns.
clearInterval ==
    /\ timers' = timers \ {backupSync}
    /\ lpc' = "done"

\* ------------------------------------------------------- storeRemoteSession
\* Invocations are numbered in the order they start.
NextCycle == CHOOSE c \in Cycles : cpc[c] = "idle" /\ \A d \in Cycles : d < c => cpc[d] # "idle"
CanStart == \E c \in Cycles : cpc[c] = "idle"

\* storeRemoteSession is called (line 63 or line 67) and suspends at line 72.
storeStart(c) ==
    /\ cpc' = [cpc EXCEPT ![c] = "sessionExists"]
    /\ UNCHANGED cSessionExists

\* The invocation returns: the authReady that awaits it at line 63 runs on to
\* setInterval; a timer callback (line 67) just ends.
storeReturns(c) ==
    IF \E a \in AuthCalls : apc[a] = "storeRemoteSession" /\ aCycle[a] = c
      THEN LET a == CHOOSE b \in AuthCalls : apc[b] = "storeRemoteSession" /\ aCycle[b] = c
           IN  /\ setInterval(a)
               /\ aCycle' = [aCycle EXCEPT ![a] = 0]
      ELSE UNCHANGED authVars

\* The catch block of storeRemoteSession (lines 83-85): log, return.
storeCatch(c) ==
    /\ cpc' = [cpc EXCEPT ![c] = "done"]
    /\ cSessionExists' = [cSessionExists EXCEPT ![c] = FALSE]
    /\ storeReturns(c)

\* Line 72 returns; line 74 or line 77 is called.
storeSessionExists(c) ==
    /\ cpc[c] = "sessionExists"
    /\ \E ok \in BOOLEAN :
         IF ok THEN /\ cSessionExists' = [cSessionExists EXCEPT ![c] = store.exists]
                    /\ cpc' = [cpc EXCEPT ![c] = IF store.exists THEN "delete" ELSE "isValidPath"]
                    /\ UNCHANGED authVars
               ELSE storeCatch(c)
    /\ UNCHANGED <<ctorVars, pruneVars, restarts, store, fsVars, recVars, logoutVars>>

\* Line 74 returns; line 77 is called.
storeDelete(c) ==
    /\ cpc[c] = "delete"
    /\ \E ok \in BOOLEAN :
         IF ok THEN /\ store' = NoTree
                    /\ cpc' = [cpc EXCEPT ![c] = "isValidPath"]
                    /\ UNCHANGED cSessionExists
                    /\ UNCHANGED authVars
               ELSE /\ storeCatch(c)
                    /\ store' = store
    /\ UNCHANGED <<ctorVars, pruneVars, restarts, fsVars, recVars, logoutVars>>

\* Line 77 returns.  With the directory present compressSession is called:
\* fs.createWriteStream (line 117) starts to open the archive for writing,
\* and deleteMetadata is awaited (line 119).  Without the directory the
\* method returns.
storeIsValidPath(c) ==
    /\ cpc[c] = "isValidPath"
    /\ IF userDataDir.exists
         THEN /\ cpc' = [cpc EXCEPT ![c] = "createWriteStream"]
              /\ cSessionExists' = [cSessionExists EXCEPT ![c] = FALSE]
              /\ UNCHANGED authVars
         ELSE /\ cpc' = [cpc EXCEPT ![c] = "done"]
              /\ cSessionExists' = [cSessionExists EXCEPT ![c] = FALSE]
              /\ storeReturns(c)
    /\ UNCHANGED <<ctorVars, pruneVars, restarts, store, fsVars, recVars, logoutVars>>

\* The process is gone: no call is suspended, no timer exists, the object
\* and the host options are those of no process.
processGone(b) ==
    /\ puppeteerDir' = "unset"
    /\ bpc' = b
    /\ rpc' = "idle"
    /\ rSessionExists' = FALSE
    /\ rFailed' = FALSE
    /\ apc' = [a \in AuthCalls |-> "idle"]
    /\ aCycle' = [a \in AuthCalls |-> 0]
    /\ timers' = {}
    /\ backupSync' = 0
    /\ cpc' = [c \in Cycles |-> "idle"]
    /\ cSessionExists' = [c \in Cycles |-> FALSE]
    /\ lpc' = "idle"
    /\ lFailed' = FALSE

\* The open of the write stream of line 117 completes while the invocation
\* is suspended in deleteMetadata.  On success the archive exists, empty.
\* On failure the stream emits 'error'; lines 115-133 register no 'error'
\* listener on it (only on the tar stream, line 127), so the emit throws
\* outside every try block: an uncaught exception, which ends the process
\* with all its timers and suspended calls.
createWriteStream(c) ==
    /\ cpc[c] = "createWriteStream"
    /\ \E ok \in BOOLEAN :
         IF ok THEN /\ zips' = [zips EXCEPT ![StoreZip] = Tree({}, {})]
                    /\ cpc' = [cpc EXCEPT ![c] = "deleteMetadata"]
                    /\ UNCHANGED cSessionExists
                    /\ UNCHANGED <<recVars, authVars, logoutVars>>
               ELSE /\ processGone("crashed")
                    /\ zips' = zips
    /\ UNCHANGED <<ctorVars, pruneVars, restarts, store, userDataDir>>

\* ------------------------------------------------------------ deleteMetadata
\* (mutant) the loops without the requiredDirs.includes test of lines 151
\* and 168: every entry is removed.
MetadataUnfiltered(entries) == entries

\* The entries a level's loop removes: those not in requiredDirs.
Metadata(entries) == entries \ requiredDirs

\* Lines 149-181 run to the end: both levels hold required entries only.
\* The second readdir needs Default.
deleteMetadataDone(tree) ==
    [tree EXCEPT !.top = @ \cap requiredDirs, !.def = @ \cap requiredDirs]

\* Lines 149-181 with a throw somewhere (caught at line 182): the first level
\* is left part-way, or it is done and the second level is left part-way.  A
\* missing directory, or a missing Default, makes the readdir throw.
deleteMetadataThrown(tree) ==
    { [tree EXCEPT !.top = @ \ gone, !.def = IF "Default" \in gone THEN {} ELSE @] :
        gone \in { g \in SUBSET Metadata(tree.top) : g # Metadata(tree.top) \/ g = {} } }
    \cup
    { [tree EXCEPT !.top = @ \cap requiredDirs, !.def = @ \ gone] :
        gone \in { g \in SUBSET Metadata(tree.def) : g # Metadata(tree.def) \/ g = {} } }

\* Lines 120-128, run when deleteMetadata has returned: tar.create with
\* sync: true reads the tree and writes the archive inside the promise
\* executor.  An error rejects the promise, which storeRemoteSession's catch
\* receives.  Nothing in the executor calls resolve (line 129 is after the
\* return), so without an error the promise stays pending: the invocation
\* stays suspended at line 79.
tarCreate(c, tree, ok) ==
    IF tree.exists /\ ok
      THEN /\ zips' = [zips EXCEPT ![StoreZip] = tree]
           /\ cpc' = [cpc EXCEPT ![c] = "compressSession"]
           /\ UNCHANGED cSessionExists
           /\ UNCHANGED authVars
      ELSE /\ storeCatch(c)
           /\ UNCHANGED zips

\* deleteMetadata returns (it never throws) and compressSession runs on to
\* the tar.create of lines 120-128.
deleteMetadata(c) ==
    /\ cpc[c] = "deleteMetadata"
    /\ \E ok \in BOOLEAN, tarOk \in BOOLEAN :
         /\ IF userDataDir.exists /\ "Default" \in userDataDir.top /\ ok
              THEN userDataDir' = deleteMetadataDone(userDataDir)
              ELSE userDataDir' \in deleteMetadataThrown(userDataDir)
         /\ tarCreate(c, userDataDir', tarOk)
    /\ UNCHANGED <<ctorVars, pruneVars, restarts, store, recVars, logoutVars>>

\* ---------------------------------------------------------------- authReady
\* The host calls authReady once the browser runs on the resolved directory;
\* line 60 is called.
authReady(a) ==
    /\ bpc = "done"
    /\ lpc = "idle"
    /\ apc[a] = "idle"
    /\ \A b \in AuthCalls : b < a => apc[b] # "idle"
    /\ apc' = [apc EXCEPT ![a] = "sessionExists"]
    /\ UNCHANGED <<ctorVars, pruneVars, restarts, store, fsVars, recVars, aCycle, timers, backupSync,
                   cycleVars, logoutVars>>

\* (mutant) authReady without lines 61-64: no delay, no initial backup.
authSessionExistsArmsAtOnce(a) ==
    /\ apc[a] = "sessionExists"
    /\ \E ok \in BOOLEAN :
         IF ~ok THEN /\ apc' = [apc EXCEPT ![a] = "threw"]
                     /\ UNCHANGED <<timers, backupSync>>
         ELSE setInterval(a)
    /\ UNCHANGED <<ctorVars, pruneVars, restarts, store, fsVars, recVars, aCycle, cycleVars, logoutVars>>

\* Line 60 returns.  authReady has no try: a store error rejects it.  With a
\* snapshot the timer is armed at once, without one the delay starts.
authSessionExists(a) ==
    /\ apc[a] = "sessionExists"
    /\ \E ok \in BOOLEAN :
         IF ~ok THEN /\ apc' = [apc EXCEPT ![a] = "threw"]
                     /\ UNCHANGED <<timers, backupSync>>
         ELSE IF store.exists THEN setInterval(a)
         ELSE /\ apc' = [apc EXCEPT ![a] = "delay"]
              /\ UNCHANGED <<timers, backupSync>>
    /\ UNCHANGED <<ctorVars, pruneVars, restarts, store, fsVars, recVars, aCycle, cycleVars, logoutVars>>

\* Line 62 returns (the 30 s have passed); line 63 calls storeRemoteSession.
authDelay(a) ==
    /\ apc[a] = "delay"
    /\ CanStart
    /\ storeStart(NextCycle)
    /\ apc' = [apc EXCEPT ![a] = "storeRemoteSession"]
    /\ aCycle' = [aCycle EXCEPT ![a] = NextCycle]
    /\ UNCHANGED <<ctorVars, pruneVars, restarts, store, fsVars, recVars, timers, backupSync, logoutVars>>

\* Lines 66-68: a tick of an active timer calls storeRemoteSession.
timerTick(t) ==
    /\ t \in timers
    /\ CanStart
    /\ storeStart(NextCycle)
    /\ UNCHANGED <<ctorVars, pruneVars, restarts, store, fsVars, recVars, authVars, logoutVars>>

\* ------------------------------------------------------------------- logout
\* The host calls logout; deleteRemoteSession suspends at line 108.
logout ==
    /\ bpc = "done"
    /\ lpc = "idle"
    /\ lpc' = "sessionExists"
    /\ UNCHANGED <<ctorVars, pruneVars, restarts, store, fsVars, recVars, authVars, cycleVars, lFailed>>

\* Line 108 returns; a throw is caught at line 110.  Line 109 or line 50 next.
logoutSessionExists ==
    /\ lpc = "sessionExists"
    /\ \E ok \in BOOLEAN :
         IF ok THEN /\ lpc' = IF store.exists THEN "delete" ELSE "isValidPath"
                    /\ lFailed' = lFailed
               ELSE /\ lpc' = "isValidPath"
                    /\ lFailed' = TRUE
    /\ UNCHANGED <<ctorVars, pruneVars, restarts, store, fsVars, recVars, authVars, cycleVars>>

\* (mutant) deleteRemoteSession without the store.delete of line 109.
logoutDeleteSkipped ==
    /\ lpc = "delete"
    /\ store' = store
    /\ lFailed' = lFailed
    /\ lpc' = "isValidPath"
    /\ UNCHANGED <<ctorVars, pruneVars, restarts, fsVars, recVars, authVars, cycleVars>>

\* Line 109 returns; a throw is caught at line 110.  Line 50 is called.
logoutDelete ==
    /\ lpc = "delete"
    /\ \E ok \in BOOLEAN :
         IF ok THEN /\ store' = NoTree
                    /\ lFailed' = lFailed
               ELSE /\ store' = store
                    /\ lFailed' = TRUE
    /\ lpc' = "isValidPath"
    /\ UNCHANGED <<ctorVars, pruneVars, restarts, fsVars, recVars, authVars, cycleVars>>

\* (mutant) rm without .catch: the error rejects logout before line 57.
logoutRmRejects ==
    /\ lFailed' = TRUE
    /\ lpc' = "threw"
    /\ timers' = timers

\* A throw of fs.promises.rm in logout is swallowed by .catch (line 55).
logoutRmThrown ==
    /\ lFailed' = TRUE
    /\ clearInterval

\* Line 50 returns; rm is called (lines 52-55) or the timer is cleared.
logoutIsValidPath ==
    /\ lpc = "isValidPath"
    /\ IF userDataDir.exists
         THEN /\ lpc' = "rm"
              /\ UNCHANGED timers
         ELSE clearInterval
    /\ UNCHANGED <<ctorVars, pruneVars, restarts, store, fsVars, recVars, apc, aCycle, backupSync, cycleVars, lFailed>>

\* Lines 52-55 return; line 57 clears the timer.
logoutRm ==
    /\ lpc = "rm"
    /\ \E ok \in BOOLEAN :
         IF ok THEN /\ userDataDir' = NoTree
                    /\ lFailed' = lFailed
                    /\ clearInterval
               ELSE /\ userDataDir' = userDataDir
                    /\ logoutRmThrown
    /\ UNCHANGED <<ctorVars, pruneVars, restarts, store, zips, recVars, apc, aCycle, backupSync, cycleVars>>

\* --------------------------------------------------------------- the browser
\* The host's browser owns the directory while it runs and rewrites it at
\* any time between beforeBrowserInitialized and logout.
browserWrites ==
    /\ bpc = "done"
    /\ lpc = "idle"
    /\ \E p \in BrowserProfiles :
         /\ p # userDataDir
         /\ userDataDir' = p
    /\ UNCHANGED <<ctorVars, pruneVars, restarts, store, zips, recVars, authVars, cycleVars, logoutVars>>

\* ------------------------------------------------------------------ restart
\* The host process ends and a new one constructs RemoteAuth again: timers
\* and suspended calls are gone, the store and the working directory stay,
\* the local profile directory stays or has been wiped.  (After logout the
\* session is over: there is nothing to start again.)  A process that an
\* uncaught exception ended is started again the same way.
restart ==
    /\ restarts < MaxRestarts
    /\ bpc # "idle"
    /\ lpc = "idle"
    /\ restarts' = restarts + 1
    /\ processGone("idle")
    /\ dir0' = NoTree
    /\ UNCHANGED <<ctorVars, ppc, todo>>
    /\ userDataDir' \in {userDataDir, NoTree}
    /\ store' = store
    /\ zips' = zips

\* --------------------------------------------------------------------- Next
Next ==
    \/ beforeBrowserInitialized
    \/ extractSessionExists
    \/ extractIsValidPath
    \/ extractRm
    \/ extractStoreExtract
    \/ extractUnCompress
    \/ beforeBrowserInitializedResume
    \/ \E a \in AuthCalls : authReady(a)
    \/ \E a \in AuthCalls : authSessionExists(a)
    \/ \E a \in AuthCalls : authDelay(a)
    \/ \E t \in AuthCalls : timerTick(t)
    \/ \E c \in Cycles : storeSessionExists(c)
    \/ \E c \in Cycles : storeDelete(c)
    \/ \E c \in Cycles : storeIsValidPath(c)
    \/ \E c \in Cycles : createWriteStream(c)
    \/ \E c \in Cycles : deleteMetadata(c)
    \/ logout
    \/ logoutSessionExists
    \/ logoutDelete
    \/ logoutIsValidPath
    \/ logoutRm
    \/ browserWrites

Spec == Init /\ [][Next]_vars

\* What the event loop guarantees: a store or filesystem call that is pending
\* completes, a delay runs out, an armed timer ticks.  What the host does
\* (calling beforeBrowserInitialized, authReady or logout, the browser
\* writing its profile) is up to the host.
Fairness ==
    /\ WF_vars(extractSessionExists)
    /\ WF_vars(extractIsValidPath)
    /\ WF_vars(extractRm)
    /\ WF_vars(extractStoreExtract)
    /\ WF_vars(extractUnCompress)
    /\ WF_vars(beforeBrowserInitializedResume)
    /\ \A a \in AuthCalls : WF_vars(authSessionExists(a))
    /\ \A a \in AuthCalls : WF_vars(authDelay(a))
    /\ \A t \in AuthCalls : WF_vars(timerTick(t))
    /\ \A c \in Cycles : WF_vars(storeSessionExists(c))
    /\ \A c \in Cycles : WF_vars(storeDelete(c))
    /\ \A c \in Cycles : WF_vars(storeIsValidPath(c))
    /\ \A c \in Cycles : WF_vars(createWriteStream(c))
    /\ \A c \in Cycles : WF_vars(deleteMetadata(c))
    /\ WF_vars(logoutSessionExists)
    /\ WF_vars(logoutDelete)
    /\ WF_vars(logoutIsValidPath)
    /\ WF_vars(logoutRm)

SpecFair == Init /\ [][Next]_vars /\ Fairness

\* Process lifetimes one after the other, on the same store and disk.
NextRestart == Next \/ restart

SpecRestart == Init /\ [][NextRestart]_vars

\* ------------------------------------------- deleteMetadata, step by step
\* Directories deleteMetadata may be called on: any mix of required entries
\* and others on both levels, with or without Default, or no directory.
TopNames == {"Default", "IndexedDB", "lockfile", "Crashpad"}
DefaultNames == {"Local Storage", "IndexedDB", "Cache", "Cookies"}
ProfileDirs == {NoTree} \cup { Tree(t, d) : t \in SUBSET TopNames, d \in SUBSET DefaultNames }

\* What deleteMetadata on its own leaves alone.
pruneFrame == UNCHANGED <<dir0, ctorVars, restarts, store, zips, procVars>>

\* The catch block of deleteMetadata (lines 182-184): log, return.
pruneCatch ==
    /\ ppc' = "caught"
    /\ UNCHANGED <<userDataDir, todo>>

\* A readdir has returned its listing: the for-loop skips the required
\* entries without suspending and suspends at the lstat of the first other
\* one (lines 150-153, 167-170); with none the loop is over at once.
pruneLoop(level, listing) ==
    IF Metadata(listing) # {}
      THEN /\ ppc' = level
           /\ todo' = Metadata(listing)
      ELSE /\ ppc' = IF level = "first" THEN "readdirDefault" ELSE "done"
           /\ todo' = {}

\* deleteMetadata is called and suspends at the readdir of line 149.
pruneCall ==
    /\ ppc = "idle"
    /\ ppc' = "readdir"
    /\ UNCHANGED <<userDataDir, todo>>
    /\ pruneFrame

\* Line 149 returns the top-level listing, or throws without the directory.
pruneReaddir ==
    /\ ppc = "readdir"
    /\ IF userDataDir.exists THEN pruneLoop("first", userDataDir.top)
                             ELSE pruneCatch
    /\ UNCHANGED userDataDir
    /\ pruneFrame

\* Line 166 returns the listing of Default, or throws without Default.
pruneReaddirDefault ==
    /\ ppc = "readdirDefault"
    /\ IF "Default" \in userDataDir.top THEN pruneLoop("second", userDataDir.def)
                                         ELSE pruneCatch
    /\ UNCHANGED userDataDir
    /\ pruneFrame

\* Lines 153-162 and 170-179 for one element of the listing: lstat, then rm
\* or unlink.  They return with the entry gone, and the loop goes on to the
\* next entry or ends; or one of them throws.
pruneRemove ==
    /\ ppc \in {"first", "second"}
    /\ \E e \in todo, ok \in BOOLEAN :
         IF ok
           THEN /\ userDataDir' =
                     IF ppc = "first"
                       THEN [userDataDir EXCEPT !.top = @ \ {e},
                                                !.def = IF e = "Default" THEN {} ELSE @]
                       ELSE [userDataDir EXCEPT !.def = @ \ {e}]
                /\ todo' = todo \ {e}
                /\ ppc' = IF todo' # {} THEN ppc
                          ELSE IF ppc = "first" THEN "readdirDefault" ELSE "done"
           ELSE pruneCatch
    /\ pruneFrame

\* deleteMetadata applied to every directory, nothing else running.
InitPrune ==
    /\ userDataDir \in ProfileDirs
    /\ dir0 = userDataDir
    /\ ppc = "idle"
    /\ todo = {}
    /\ store = NoTree
    /\ zips = [f \in ZipFiles |-> NoTree]
    /\ restarts = 0
    /\ Constructed
    /\ puppeteerDir = "dirPath"
    /\ ConstructedOk

NextPrune ==
    \/ pruneCall
    \/ pruneReaddir
    \/ pruneReaddirDefault
    \/ pruneRemove

SpecPrune == InitPrune /\ [][NextPrune]_vars

\* The constructor applied to every argument pair.
NextConstructor == constructor

SpecConstructor == InitConstructor /\ [][NextConstructor]_vars

\* =================================================================== claims
InFlight(c) == cpc[c] \notin {"idle", "done"}

\* C1: backup cycles never overlap: in every reachable state at most one
\* storeRemoteSession invocation is in flight.
C1_NoOverlap == Cardinality({c \in Cycles : InFlight(c)}) <= 1

\* C2: once logout() has returned, no new backup cycle ever starts.
C2_NoCycleAfterLogout ==
    [][lpc = "done" => \A c \in Cycles : cpc[c] = "idle" => cpc'[c] = "idle"]_vars

\* C3: at most one recurring backup timer is active, and a timer exists only
\* between an authReady and the following logout.
C3_OneTimer ==
    /\ Cardinality(timers) <= 1
    /\ timers # {} => (lpc # "done" /\ \E a \in AuthCalls : apc[a] = "done")

\* A step of recovery or the resumption of beforeBrowserInitialized.
recoveryStep ==
    \/ extractSessionExists
    \/ extractIsValidPath
    \/ extractRm
    \/ extractStoreExtract
    \/ extractUnCompress
    \/ beforeBrowserInitializedResume

\* C4: recovery is fail-open: whatever call of extractRemoteSession fails,
\* neither it nor beforeBrowserInitialized raises, recovery is never stuck
\* (while beforeBrowserInitialized waits, a step towards its return can be
\* taken), and once beforeBrowserInitialized has returned the host options
\* hold the resolved profile directory path.
C4_FailOpen ==
    /\ rpc # "threw"
    /\ rpc # "idle" => bpc # "threw"
    /\ bpc = "extractRemoteSession" => ENABLED recoveryStep
    /\ bpc = "done" => puppeteerDir = "dirPath"

\* C4 witness: a call of recovery threw, the catch block ran, and
\* beforeBrowserInitialized returned with the path set.
C4_Witness == rFailed /\ bpc = "done" /\ puppeteerDir = "dirPath"

\* C5: when beforeBrowserInitialized sets the path in the host options, no
\* step of recovery (existence check, removal, extract, unpack) is pending.
C5_PathAfterRecovery == bpc = "done" => rpc = "done"

\* C5 witness: recovery extracted the snapshot and ran the unpack, and the
\* host has been given the path.
C5_Witness == bpc = "done" /\ puppeteerDir = "dirPath" /\ zips[ExtractZip].exists

\* C6: backup-then-recover round trip: a backup cycle has packed the profile
\* directory, the process is started again and recovery runs without any
\* call failing; then the recovered profile directory exists and its
\* required paths are those of the directory that was backed up.
C6_RoundTrip ==
    ( /\ restarts > 0
      /\ zips[StoreZip].exists /\ zips[StoreZip].top # {}
      /\ bpc = "extractRemoteSession" /\ rpc = "done" /\ ~rFailed )
    => ( /\ userDataDir.exists
         /\ Pruned(userDataDir) = Pruned(zips[StoreZip]) )

\* C8: a second backup cycle triggered while one is in flight does not
\* corrupt the remote snapshot: when both have run as far as they go, the
\* remote snapshot is the archive of the cycle that packed last.
C8_LastCycleWins ==
    ( /\ lpc = "idle"
      /\ \A c \in Cycles : cpc[c] \in {"idle", "done", "compressSession"}
      /\ Cardinality({c \in Cycles : cpc[c] = "compressSession"}) >= 2 )
    => store = zips[StoreZip]

\* C9: a failure of a step inside a backup cycle is caught inside the cycle:
\* no step of a cycle disarms a timer or makes the awaiting authReady
\* raise, so the next tick can start a new cycle.
C9_FailureLeavesTimerArmed ==
    [][\A c \in Cycles :
         (InFlight(c) /\ cpc'[c] # cpc[c])
         => /\ timers \subseteq timers'
            /\ \A a \in AuthCalls : apc'[a] = "threw" => apc[a] = "threw"]_vars

\* C10: logout never fails: it never raises, and at the moment it returns
\* the timer held in this.backupSync is not active, whichever of its store
\* and filesystem calls threw.
C10_LogoutNeverFails ==
    [][ /\ lpc' # "threw"
        /\ (lpc # "done" /\ lpc' = "done") => backupSync \notin timers' ]_vars

\* C10 witness: a call inside logout threw, logout returned, and the timer
\* that had been armed is cancelled.
C10_Witness == lpc = "done" /\ lFailed /\ backupSync # 0 /\ backupSync \notin timers

\* The identifier grammar [A-Za-z0-9_-]+ of the session id.
GrammarChars == Letters \cup Digits \cup {"_", "-"}
InGrammar(s) == Len(s) >= 1 /\ \A i \in 1..Len(s) : s[i] \in GrammarChars

\* C11: with a store and a session id supplied, construction succeeds
\* exactly when the id matches [A-Za-z0-9_-]+ and the interval is at least
\* 60000; otherwise it fails.
C11_Validation ==
    (ctor # "new" /\ clientId.given)
    => (ctor = "ok" <=> ( /\ InGrammar(clientId.chars)
                          /\ backupSyncMs.given
                          /\ backupSyncMs.ms >= 60000 ))

\* deleteMetadata has returned and none of its lstat, rm or unlink calls
\* threw: it ran to its end, or to a readdir of something that is not there.
PrunedToEnd == ppc = "done" \/ (ppc = "caught" /\ todo = {})

\* C12: pruning never removes a required path and removes everything else:
\* at every point of deleteMetadata the required entries of both levels are
\* those the directory had at the call, and once it has run to its end no
\* other entry is left on either level.  The outcome is the one the backup
\* cycle's deleteMetadata step takes.
C12_PruneKeepsRequired ==
    /\ ppc # "idle" =>
         /\ userDataDir.top \cap requiredDirs = dir0.top \cap requiredDirs
         /\ userDataDir.def \cap requiredDirs = dir0.def \cap requiredDirs
    /\ PrunedToEnd =>
         /\ userDataDir.top \subseteq requiredDirs
         /\ userDataDir.def \subseteq requiredDirs
    /\ ppc = "done" => userDataDir = deleteMetadataDone(dir0)
    /\ ppc = "caught" => userDataDir \in deleteMetadataThrown(dir0)

\* C12 witness: a directory with required and other entries on both levels
\* has been pruned to the end.
C12_Witness ==
    /\ ppc = "done"
    /\ dir0.top \ requiredDirs # {} /\ dir0.def \ requiredDirs # {}
    /\ userDataDir.top = {"Default", "IndexedDB"}
    /\ userDataDir.def = {"Local Storage", "IndexedDB"}

\* C13: when recovery starts with the profile directory present, the
\* directory is gone when recovery returns, with or without a remote
\* snapshot, and whatever fails after the removal; only a throw of the
\* existence check or of the removal itself ends recovery before that.
C13_StaleDirRemoved ==
    [][ ( /\ rpc # "done" /\ rpc' = "done"
          /\ dir0.exists
          /\ ~(rpc \in {"sessionExists", "rm"} /\ rFailed' /\ ~rFailed) )
        => ~userDataDir'.exists ]_vars

\* C13 witness: recovery has returned, the directory that was present at
\* its start is gone, and no call of it threw (there was no snapshot).
C13_Witness ==
    /\ bpc = "extractRemoteSession" /\ rpc = "done"
    /\ dir0.exists /\ ~userDataDir.exists
    /\ ~rFailed /\ ~store.exists

\* C14: with a remote snapshot and no store call failing, recovery runs
\* extract, unpack, archive deletion in that order: while the unpack runs
\* its destination directory exists, and when recovery returns from the
\* unpack the profile directory holds the snapshot and the transient
\* archive is absent.
C14_ExtractUnpackDelete ==
    [][ rpc = "unCompress" =>
          /\ userDataDir.exists
          /\ rpc' = "done" => /\ userDataDir' = store
                              /\ ~zips'[ExtractZip].exists ]_vars

\* C15: a backup cycle that found the profile directory and in which no
\* step failed (it has pruned, and packed without an error) goes on to
\* store.save and the removal of the archive and eventually ends, with a
\* remote snapshot stored; only the end of the process excuses it.
C15_CycleEnds ==
    \A c \in Cycles :
        (cpc[c] = "compressSession")
        ~> ((cpc[c] = "done" /\ store.exists) \/ bpc = "crashed")

\* C16: in every step of a live process and for every authReady call: when
\* its existence check returns, with a snapshot it arms its timer at once
\* and starts no backup, without one it only starts the delay; it starts
\* its initial backup only from the delay; and apart from the first case
\* it arms its timer only in the step in which its initial backup ends.
C16_DelayThenInitialBackup ==
    [][ bpc' = "done" => \A a \in AuthCalls :
          /\ (apc[a] = "sessionExists" /\ apc'[a] # "sessionExists") =>
                /\ cpc' = cpc
                /\ IF apc'[a] = "threw" THEN timers' = timers
                   ELSE IF store.exists THEN apc'[a] = "done" /\ a \in timers'
                   ELSE apc'[a] = "delay" /\ timers' = timers
          /\ (apc'[a] = "storeRemoteSession" /\ apc[a] # "storeRemoteSession") =>
                apc[a] = "delay"
          /\ (a \in timers' /\ a \notin timers /\ apc[a] # "sessionExists") =>
                /\ apc[a] = "storeRemoteSession"
                /\ aCycle[a] \in Cycles
                /\ InFlight(aCycle[a])
                /\ cpc'[aCycle[a]] = "done" ]_vars

\* C16 witness: an authReady without a snapshot has waited the delay and
\* its initial backup is running; it has armed no timer.
C16_Witness ==
    /\ ~store.exists
    /\ apc[1] = "storeRemoteSession"
    /\ aCycle[1] = 1 /\ cpc[1] = "deleteMetadata"
    /\ timers = {}

\* C17: every authReady call eventually arms the recurring timer, with a
\* snapshot or after the delay and the initial backup; only a throw of its
\* existence check or the end of the process excuses it.
C17_AuthReadyArmsTimer ==
    \A a \in AuthCalls :
        (apc[a] = "sessionExists")
        ~> (apc[a] \in {"done", "threw"} \/ bpc = "crashed")

\* C18: the local archive is transient: in the step in which a backup cycle
\* that has created the archive ends, the archive file is gone.
C18_ArchiveTransient ==
    [][ \A c \in Cycles :
          (cpc[c] \in {"deleteMetadata", "compressSession"} /\ cpc'[c] = "done")
          => ~zips'[StoreZip].exists ]_vars

\* C19: once logout has returned without any of its calls throwing and no
\* backup cycle is in flight any more, the store holds no snapshot and the
\* profile directory is absent, however logout, ticks and cycles interleaved.
C19_LogoutLeavesNothing ==
    ( /\ lpc = "done" /\ ~lFailed
      /\ \A c \in Cycles : ~InFlight(c) )
    => (~store.exists /\ ~userDataDir.exists)

\* C19 witness: logout has deleted the snapshot and the directory and has
\* cleared its timer, and the cycles that ran have ended.
C19_Witness ==
    /\ lpc = "done" /\ ~lFailed
    /\ backupSync # 0 /\ backupSync \notin timers
    /\ \A c \in Cycles : cpc[c] = "done"
    /\ ~store.exists /\ ~userDataDir.exists

\* C20: a backup cycle in which no step fails never loses the remote
\* snapshot: when a cycle that found a snapshot (its sessionExists is true)
\* ends without entering its catch block, the store holds a snapshot,
\* with or without the local profile directory.
C20_SnapshotKept ==
    [][ \A c \in Cycles :
          (cpc[c] = "isValidPath" /\ cSessionExists[c] /\ cpc'[c] = "done")
          => store'.exists ]_vars

====
